---- MODULE Spec2Model ----
(***************************************************************************)
(* Model of hera's WAVM execution bridge (src/src/wavm.cpp).               *)
(*                                                                         *)
(* The state is the process-wide state of namespace wavm_host_module (the  *)
(* stack of interface pointers and the exception slot), the C++ call stack *)
(* of WavmEngine::execute activations (execute may be re-entered from the  *)
(* "call" host function), and the engine's uncollected compartments.       *)
(* Every C++ throw is modelled by what it does to that state: the          *)
(* activation is unwound at once, skipping the rest of its code.           *)
(***************************************************************************)
EXTENDS Naturals, Sequences, FiniteSets

\* Bounds of the model.
MaxDepth == 2       \* nested execute activations alive at once
MaxStack == 3       \* entries on wavm_host_module::interface
MaxSteps == 1       \* host calls that return to the contract, per activation

VARIABLES
  interface,        \* stack<WavmEthereumInterface*>, bottom first
  exceptionIdx,     \* HeraExceptionsEnum exceptionIdx
  exceptionString,  \* string exceptionString
  frames,           \* activations of execute/internalExecute, outermost first
  garbage,          \* compartments no longer referenced and not yet collected
  crashed,          \* the process died in undefined behaviour
  last              \* the execute that just ended, as its caller finds it

vars == <<interface, exceptionIdx, exceptionString, frames, garbage, crashed, last>>

----------------------------------------------------------------------------
\* enum class HeraExceptionsEnum
HeraExceptionsEnum ==
  {"None", "InternalErrorException", "VMTrap", "ArgumentOutOfRange", "OutOfGas",
   "ContractValidationFailure", "InvalidMemoryAccess", "EndExecution",
   "StaticModeViolation"}

\* Errors an EthereumInterface operation raises (EndExecution is its benign stop).
EEIErrors ==
  {"InternalErrorException", "ArgumentOutOfRange", "OutOfGas",
   "ContractValidationFailure", "InvalidMemoryAccess", "StaticModeViolation"}

\* e.what() of an InvalidMemoryAccess raised by the interface.
WhatStrings == {"memory access out of bounds"}

RethrownString == "hera exception re-thrown"

\* The intrinsic functions of module "ethereum".
HostFunctions ==
  {"useGas", "getAddress", "call", "callDataCopy", "getCallDataSize", "getGasLeft",
   "storageStore", "storageLoad", "codeCopy", "getCodeSize", "finish", "revert",
   "getReturnDataSize", "returnDataCopy"}

\* Host functions whose interface operation reads or writes linear memory.
MemoryFunctions ==
  {"getAddress", "call", "callDataCopy", "storageStore", "storageLoad", "codeCopy",
   "finish", "revert", "returnDataCopy"}

StopFunctions == {"finish", "revert"}

PlainFunctions == HostFunctions \ (StopFunctions \cup {"call"})

----------------------------------------------------------------------------
\* The contract handed to execute: what the parser makes of its bytes, its
\* imports, and whether it exports "memory" and "main".
Import(m, n, t) == [module |-> m, name |-> n, type |-> t]

FullImports == {Import("ethereum", f, "func") : f \in HostFunctions}

ImportLists ==
  { {},
    FullImports,
    {Import("env", "useGas", "func")},
    {Import("ethereum", "selfDestruct", "func")},
    {Import("ethereum", "useGas", "memory")} }

ParseOutcomes == {"ok", "deserialize", "validate", "bad_alloc"}

\* Bytes the parser rejects yield no module: no imports and no exports.
Modules ==
  [parse : {"ok"}, imports : ImportLists, hasMemory : BOOLEAN, hasMain : BOOLEAN]
  \cup [parse : ParseOutcomes \ {"ok"}, imports : {{}}, hasMemory : {FALSE},
        hasMain : {FALSE}]

\* resolver.moduleNameToInstanceMap after set("ethereum", ethereumHostModule)
moduleNameToInstanceMap == {"ethereum"}

\* Runtime::getInstanceExport on the host module instance: the kind of the
\* exported object, or "null".
getInstanceExport(exportName) ==
  IF exportName \in HostFunctions THEN "func" ELSE "null"

\* HeraWavmResolver::resolve: outObject ("null" or the object's kind).
resolveObject(moduleName, exportName, type) ==
  IF moduleName \in moduleNameToInstanceMap
    THEN getInstanceExport(exportName)
    ELSE "null"

resolve(moduleName, exportName, type) ==
  resolveObject(moduleName, exportName, type) # "null"

\* Runtime::linkModule(moduleAST, resolver).success
linkModule(imports) ==
  \A i \in imports : resolve(i.module, i.name, i.type)

----------------------------------------------------------------------------
NoExit ==
  [outcome |-> "none", error |-> "None", message |-> "", path |-> "none",
   lvl |-> 0, entryDepth |-> 0, exitDepth |-> 0, pushes |-> 0, pops |-> 0,
   slotIdx |-> "None", slotStr |-> "", ownOnStack |-> FALSE, ownMem |-> "uninit",
   tornDown |-> FALSE, mainInvoked |-> FALSE, trapSlot |-> "NA",
   eeiRaised |-> "None", captured |-> "None", gcRuns |-> 0,
   compCreated |-> FALSE, garbage |-> 0, slotWrites |-> 0, stages |-> <<>>]

Init ==
  /\ interface = <<>>
  /\ exceptionIdx = "None"
  /\ exceptionString = ""
  /\ frames = <<>>
  /\ garbage = 0
  /\ crashed = FALSE
  /\ last = NoExit

Level == Len(frames)
Top == frames[Level]
SetTop(f) == [frames EXCEPT ![Level] = f]

\* A new activation of execute, before its first statement.
NewFrame(mod) ==
  [pc |-> "execute", mod |-> mod, entryDepth |-> Len(interface),
   mem |-> "uninit", pushes |-> 0, pops |-> 0, comp |-> FALSE,
   compCreated |-> FALSE, path |-> "none", eeiRaised |-> "None", captured |-> "None",
   trapSlot |-> "NA", mainInvoked |-> FALSE, tornDown |-> FALSE,
   gcRuns |-> 0, steps |-> 0, slotWrites |-> 0, memAccess |-> "none",
   stages |-> <<>>]

----------------------------------------------------------------------------
\* The stack of interface pointers.  An entry is the level of the activation
\* whose local WavmEthereumInterface it points to, or 0 when that activation
\* has ended and the pointer dangles.
TopEntry == interface[Len(interface)]
TopDangles == TopEntry = 0
TopMem == IF TopDangles THEN "dangling" ELSE frames[TopEntry].mem

\* interface.top()->setWasmMemory(m) / interface.top()->nullWasmMemory()
setWasmMemory(fs, m) ==
  IF TopDangles THEN fs ELSE [fs EXCEPT ![TopEntry].mem = m]

nullWasmMemory(fs) == setWasmMemory(fs, "null")

\* Runtime::collectGarbage(): what nothing references is collected.
collectGarbage == 0

\* The activation f ends and control is back in its caller: its local
\* interface object dies (pointers to it left on the stack dangle), and the
\* caller (the outer activation's eeiCall, or the embedder) sees the outcome.
Leave(f, stk, outcome, err, msg, g, sIdx, sStr) ==
  /\ interface' = [i \in 1..Len(stk) |-> IF stk[i] = Level THEN 0 ELSE stk[i]]
  /\ frames' = IF Level > 1
                 THEN [SubSeq(frames, 1, Level - 1) EXCEPT ![Level - 1].pc = "call_return"]
                 ELSE <<>>
  /\ garbage' = g
  /\ exceptionIdx' = sIdx
  /\ exceptionString' = sStr
  /\ last' = [outcome |-> outcome, error |-> err, message |-> msg, path |-> f.path,
              lvl |-> Level, entryDepth |-> f.entryDepth, exitDepth |-> Len(stk),
              pushes |-> f.pushes, pops |-> f.pops,
              slotIdx |-> sIdx, slotStr |-> sStr,
              ownOnStack |-> \E i \in 1..Len(stk) : stk[i] = Level,
              ownMem |-> f.mem, tornDown |-> f.tornDown,
              mainInvoked |-> f.mainInvoked, trapSlot |-> f.trapSlot,
              eeiRaised |-> f.eeiRaised, captured |-> f.captured,
              gcRuns |-> f.gcRuns, compCreated |-> f.compCreated, garbage |-> g,
              slotWrites |-> f.slotWrites, stages |-> f.stages]
  /\ UNCHANGED crashed

\* An exception leaves internalExecute and then execute: nothing after the
\* throwing statement runs; the locals (the interface, the GCPointers) die.
Throw(f, ex, msg) ==
  Leave([f EXCEPT !.stages = IF f.comp THEN Append(@, "released") ELSE @],
        interface, "throw", ex, msg,
        garbage + (IF f.comp THEN 1 ELSE 0), exceptionIdx, exceptionString)

\* ensureCondition(condition, ex, msg): throw ex unless the condition holds.
ensureCondition(condition, f, ex, msg, continue) ==
  IF condition THEN continue ELSE Throw(f, ex, msg)

\* heraAssert(condition, msg): throw InternalErrorException unless it holds.
heraAssert(condition, f, msg, continue) ==
  ensureCondition(condition, f, "InternalErrorException", msg, continue)

\* The activation goes on with frame f; the process-wide state is as given.
Step(f) ==
  /\ frames' = SetTop(f)
  /\ UNCHANGED <<interface, exceptionIdx, exceptionString, garbage, crashed, last>>

Running(pc) == ~crashed /\ Level > 0 /\ Top.pc = pc

----------------------------------------------------------------------------
\* The embedder calls WavmEngine::execute (having taken the previous outcome).
execute(mod) ==
  /\ ~crashed /\ Level = 0 /\ Len(interface) < MaxStack
  /\ frames' = <<NewFrame(mod)>>
  /\ last' = NoExit
  /\ UNCHANGED <<interface, exceptionIdx, exceptionString, garbage, crashed>>

\* execute, up to the call of internalExecute.
executeClear ==
  /\ Running("execute")
  /\ exceptionIdx' = "None"
  /\ exceptionString' = ""
  /\ garbage' = collectGarbage
  /\ frames' = SetTop([Top EXCEPT !.pc = "push", !.gcRuns = @ + 1])
  /\ UNCHANGED <<interface, crashed, last>>

\* internalExecute: the interface is constructed and pushed.
internalExecutePush ==
  /\ Running("push")
  /\ interface' = Append(interface, Level)
  /\ frames' = SetTop([Top EXCEPT !.pc = "parse", !.pushes = @ + 1,
                                  !.stages = Append(@, "pushed")])
  /\ UNCHANGED <<exceptionIdx, exceptionString, garbage, crashed, last>>

ParseMessage(outcome) ==
  CASE outcome = "deserialize" -> "Failed to deserialise contract"
    [] outcome = "validate" -> "Failed to validate contract"
    [] OTHER -> "Bug in wavm: didn't check bounds before allocation"

\* WASM::serialize and its three catch clauses.
parseModule ==
  /\ Running("parse")
  /\ LET f == [Top EXCEPT !.path = IF Top.mod.parse = "ok" THEN @ ELSE Top.mod.parse]
     IN ensureCondition(Top.mod.parse = "ok", f, "ContractValidationFailure",
                        ParseMessage(Top.mod.parse),
                        Step([f EXCEPT !.pc = "host", !.stages = Append(@, "parsed")]))

\* createCompartment, createContext, Intrinsics::instantiateModule.
instantiateHost ==
  /\ Running("host")
  /\ \E ethereumHostModule \in BOOLEAN :
       LET f == [Top EXCEPT !.comp = TRUE, !.compCreated = TRUE,
                            !.stages = Append(@, "compartment"),
                            !.path = IF ethereumHostModule THEN @ ELSE "host_module"]
       IN heraAssert(ethereumHostModule, f, "Failed to create host module.",
                     Step([f EXCEPT !.pc = "link", !.stages = Append(@, "host")]))

\* The resolver is set up and the contract is linked against the host module.
link ==
  /\ Running("link")
  /\ LET success == linkModule(Top.mod.imports)
         f == [Top EXCEPT !.path = IF success THEN @ ELSE "link"]
     IN heraAssert(success, f, "Couldn't link contract against host module.",
                   Step([f EXCEPT !.pc = "instantiate", !.stages = Append(@, "linked")]))

\* Runtime::instantiateModule of the contract.
instantiateModule ==
  /\ Running("instantiate")
  /\ \E moduleInstance \in BOOLEAN :
       LET f == [Top EXCEPT !.path = IF moduleInstance THEN @ ELSE "instantiate"]
       IN heraAssert(moduleInstance, f, "Couldn't instantiate contact module.",
                     Step([f EXCEPT !.pc = "memory",
                                   !.stages = Append(@, "instantiated")]))

\* asMemory(getInstanceExport(moduleInstance, "memory")): null without the export.
asMemory(mod) == IF mod.hasMemory THEN "bound" ELSE "null"

bindMemory ==
  /\ Running("memory")
  /\ frames' = [setWasmMemory(frames, asMemory(Top.mod)) EXCEPT
                  ![Level].pc = "main", ![Level].stages = Append(@, "memory")]
  /\ UNCHANGED <<interface, exceptionIdx, exceptionString, garbage, crashed, last>>

\* The lookup of "main"; when found, invokeFunctionChecked starts it.
getMain ==
  /\ Running("main")
  /\ LET f == [Top EXCEPT !.path = IF Top.mod.hasMain THEN @ ELSE "no_main"]
     IN ensureCondition(Top.mod.hasMain, f, "ContractValidationFailure",
                        "\"main\" not found",
                        Step([f EXCEPT !.pc = "invoke", !.mainInvoked = TRUE,
                                     !.stages = @ \o <<"main", "invoked">>]))

----------------------------------------------------------------------------
\* The contract is running main and calls the host functions it imports.
Imported(fn) == Import("ethereum", fn, "func") \in Top.mod.imports

\* A host function other than finish and revert forwards to interface.top()
\* and returns to the contract (for "call": without running another contract
\* in this engine).
hostCall(fn) ==
  /\ Running("invoke")
  /\ fn \in HostFunctions \ StopFunctions
  /\ Imported(fn)
  /\ Top.steps < MaxSteps
  /\ Step([Top EXCEPT !.steps = @ + 1,
                       !.memAccess = IF fn \in MemoryFunctions THEN TopMem ELSE @])

\* What the adapter of fn catches: finish and revert catch InvalidMemoryAccess,
\* the other host functions catch nothing.
Catches(fn, ex) == fn \in StopFunctions /\ ex = "InvalidMemoryAccess"

\* The interface operation raises an error the adapter does not catch: it
\* unwinds invokeFunctionChecked, the thunk (which catches EndExecution only),
\* catchRuntimeExceptions, internalExecute and execute.
hostThrow(fn, ex) ==
  /\ Running("invoke")
  /\ fn \in HostFunctions
  /\ Imported(fn)
  /\ ex \in EEIErrors
  /\ ~Catches(fn, ex)
  /\ Throw([Top EXCEPT !.path = "eei_error", !.eeiRaised = ex], ex, "raised by the interface")

\* eeiCall runs the callee in this engine: execute is entered again while the
\* outer activation waits inside its host function.
call(mod) ==
  /\ Running("invoke")
  /\ Imported("call")
  /\ Level < MaxDepth
  /\ Len(interface) < MaxStack
  /\ frames' = Append(SetTop([Top EXCEPT !.pc = "in_call", !.memAccess = TopMem]),
                      NewFrame(mod))
  /\ UNCHANGED <<interface, exceptionIdx, exceptionString, garbage, crashed, last>>

\* The nested execute has ended (its result or error became a status code)
\* and the "call" host function returns to the outer contract.
callReturn ==
  /\ Running("call_return")
  /\ frames' = SetTop([Top EXCEPT !.pc = "invoke"])
  /\ last' = NoExit
  /\ UNCHANGED <<interface, exceptionIdx, exceptionString, garbage, crashed>>

\* Variant: the thunk does not catch EndExecution, which then leaves execute.
stopEndExecution_uncaught(fn) ==
  /\ Running("invoke")
  /\ fn \in StopFunctions
  /\ Imported(fn)
  /\ Throw([Top EXCEPT !.path = "end_execution"], "EndExecution", "end of execution")

\* finish / revert: eeiFinish / eeiRevert ends with EndExecution, which the
\* thunk given to catchRuntimeExceptions catches and ignores.
stopEndExecution(fn) ==
  /\ Running("invoke")
  /\ fn \in StopFunctions
  /\ Imported(fn)
  /\ Step([Top EXCEPT !.pc = "teardown", !.path = "end_execution",
                       !.memAccess = TopMem])

\* finish / revert: InvalidMemoryAccess is caught and saved in the slot.
stopCaught(fn, what) ==
  /\ Running("invoke")
  /\ fn \in StopFunctions
  /\ Imported(fn)
  /\ what \in WhatStrings
  /\ exceptionIdx' = "InvalidMemoryAccess"
  /\ exceptionString' = what
  /\ frames' = SetTop([Top EXCEPT !.pc = "caught", !.path = "captured",
                                  !.eeiRaised = "InvalidMemoryAccess",
                                  !.captured = "InvalidMemoryAccess",
                                  !.slotWrites = @ + 1, !.memAccess = TopMem])
  /\ UNCHANGED <<interface, garbage, crashed, last>>

\* Variant: the adapter also pops the interface before forcing the trap.
stopNull_pops ==
  /\ Running("caught")
  /\ frames' = [nullWasmMemory(frames) EXCEPT ![Level].pc = "force_trap"]
  /\ interface' = SubSeq(interface, 1, Len(interface) - 1)
  /\ UNCHANGED <<exceptionIdx, exceptionString, garbage, crashed, last>>

\* ... then interface.top()->nullWasmMemory() ...
stopNull ==
  /\ Running("caught")
  /\ frames' = [nullWasmMemory(frames) EXCEPT ![Level].pc = "force_trap"]
  /\ UNCHANGED <<interface, exceptionIdx, exceptionString, garbage, crashed, last>>

\* Variant: the adapter returns to the contract instead of forcing the trap.
stopTrap_returns ==
  /\ Running("force_trap")
  /\ Step([Top EXCEPT !.pc = "invoke"])

\* ... then throwException(calledUnimplementedIntrinsicType).
stopTrap ==
  /\ Running("force_trap")
  /\ Step([Top EXCEPT !.pc = "trapped"])

\* The contract itself traps (unreachable, out-of-bounds access, ...).
mainTrap ==
  /\ Running("invoke")
  /\ Step([Top EXCEPT !.pc = "trapped", !.path = "trap"])

\* main returns.
mainReturn ==
  /\ Running("invoke")
  /\ Step([Top EXCEPT !.pc = "teardown", !.path = "normal"])

\* Variant: the handler writes VMTrap without looking at the slot.
trapHandlerIdx_overwrite(idx) == "VMTrap"

\* Variant: the handler reclassifies an error that was already saved.
trapHandlerIdx_reclassify(idx) ==
  IF idx = "None" THEN "VMTrap" ELSE "InternalErrorException"

\* The handler given to catchRuntimeExceptions: the slot's value after it.
trapHandlerIdx(idx) == IF idx = "None" THEN "VMTrap" ELSE idx

trapHandler ==
  /\ Running("trapped")
  /\ exceptionIdx' = trapHandlerIdx(exceptionIdx)
  /\ frames' = SetTop([Top EXCEPT
                         !.pc = "teardown", !.trapSlot = exceptionIdx',
                         !.slotWrites = IF exceptionIdx' # exceptionIdx THEN @ + 1 ELSE @])
  /\ UNCHANGED <<interface, exceptionString, garbage, crashed, last>>

\* "clean up" and return result: the top's memory pointer is nulled, the top
\* is popped, and the GCPointers of internalExecute go out of scope.
teardown ==
  /\ Running("teardown")
  /\ frames' = [nullWasmMemory(frames) EXCEPT
                  ![Level] = [@ EXCEPT !.pc = "returned", !.pops = @ + 1,
                                       !.tornDown = TRUE, !.comp = FALSE,
                                       !.stages = @ \o <<"cleared", "popped", "released">>]]
  /\ interface' = SubSeq(interface, 1, Len(interface) - 1)
  /\ garbage' = garbage + (IF Top.comp THEN 1 ELSE 0)
  /\ UNCHANGED <<exceptionIdx, exceptionString, crashed, last>>

\* Variant: the VMTrap case of the switch throws InternalErrorException.
rethrow_wrongCase(idx) ==
  IF idx = "VMTrap" THEN "InternalErrorException" ELSE idx

\* The switch of execute: the exception thrown for a saved exceptionIdx.
rethrow(idx) ==
  CASE idx = "InternalErrorException" -> "InternalErrorException"
    [] idx = "VMTrap" -> "VMTrap"
    [] idx = "ArgumentOutOfRange" -> "ArgumentOutOfRange"
    [] idx = "OutOfGas" -> "OutOfGas"
    [] idx = "ContractValidationFailure" -> "ContractValidationFailure"
    [] idx = "InvalidMemoryAccess" -> "InvalidMemoryAccess"
    [] idx = "EndExecution" -> "EndExecution"
    [] idx = "StaticModeViolation" -> "StaticModeViolation"
    [] OTHER -> "None"

\* Variant: execute re-throws without resetting exceptionIdx.
consumedIdx_kept(idx) == idx

\* The slot as execute leaves it when it found an exception saved in it.
consumedIdx(idx) == "None"

\* execute, after internalExecute returned: collect, re-throw or return.
executeFinish ==
  /\ Running("returned")
  /\ LET f == [Top EXCEPT !.gcRuns = @ + 1]
     IN IF exceptionIdx # "None"
          THEN IF rethrow(exceptionIdx) # "None"
                 THEN Leave(f, interface, "throw", rethrow(exceptionIdx), RethrownString,
                            collectGarbage, consumedIdx(exceptionIdx), "")
                 ELSE Leave(f, interface, "return", "None", "",
                            collectGarbage, consumedIdx(exceptionIdx), "")
          ELSE Leave(f, interface, "return", "None", "",
                     collectGarbage, exceptionIdx, exceptionString)

\* Undefined behaviour that ends the process: a host function or the clean-up
\* goes through a dangling interface.top(), or an interface operation that
\* touches memory runs with a null m_wasmMemory.
crash ==
  /\ ~crashed /\ Level > 0
  /\ \/ /\ Top.pc \in {"invoke", "caught", "teardown"}
        /\ TopDangles
     \/ /\ Top.pc = "invoke"
        /\ TopMem # "bound"
        /\ \E fn \in MemoryFunctions : Imported(fn)
  /\ crashed' = TRUE
  /\ UNCHANGED <<interface, exceptionIdx, exceptionString, frames, garbage, last>>

Next ==
  \/ \E mod \in Modules : execute(mod)
  \/ executeClear
  \/ internalExecutePush
  \/ parseModule
  \/ instantiateHost
  \/ link
  \/ instantiateModule
  \/ bindMemory
  \/ getMain
  \/ \E fn \in HostFunctions : hostCall(fn)
  \/ \E fn \in HostFunctions, ex \in EEIErrors : hostThrow(fn, ex)
  \/ \E mod \in Modules : call(mod)
  \/ callReturn
  \/ \E fn \in StopFunctions : stopEndExecution(fn)
  \/ \E fn \in StopFunctions, what \in WhatStrings : stopCaught(fn, what)
  \/ stopNull
  \/ stopTrap
  \/ mainTrap
  \/ mainReturn
  \/ trapHandler
  \/ teardown
  \/ executeFinish
  \/ crash

Spec == Init /\ [][Next]_vars

----------------------------------------------------------------------------
\* Properties.  "last" is the execute that has just handed control back.

Ended == last.outcome # "none"

ParseFailures == ParseOutcomes \ {"ok"}

\* C1: every execute, however it ends, has popped the interface stack as
\* often as it pushed it, leaves the stack as deep as it found it, and a
\* top-level execute leaves it empty.
C1_StackBalanced ==
  Ended =>
    /\ last.pushes = last.pops
    /\ last.exitDepth = last.entryDepth
    /\ (last.lvl = 1 => last.exitDepth = 0)

\* C2: the exception slot is empty (None, "") whenever execute hands control
\* back, by return or by throw, and whenever internalExecute starts.
C2_SlotEmptyAtExit ==
  /\ Ended => (last.slotIdx = "None" /\ last.slotStr = "")
  /\ Ended => (exceptionIdx = "None" /\ exceptionString = "")
  /\ Running("push") => (exceptionIdx = "None" /\ exceptionString = "")

C2_Witness ==
  /\ last.outcome = "throw"
  /\ last.captured = "InvalidMemoryAccess"
  /\ last.slotIdx = "None"
  /\ exceptionIdx = "None"

\* C3: when execute hands control back, on any path, the memory pointer of
\* its interface is not bound and no stack entry of it is left.
C3_TeardownUnconditional ==
  Ended => (~last.ownOnStack /\ last.ownMem # "bound")

\* C4: an error the interface raises in any host function is saved in the
\* slot and reaches the caller of execute after the clean-up has run.
C4_AllErrorsBridged ==
  (Ended /\ last.eeiRaised # "None") =>
    /\ last.captured = last.eeiRaised
    /\ last.tornDown
    /\ last.error = last.eeiRaised

\* C5: InvalidMemoryAccess raised inside finish or revert: the slot is written
\* first, then the top's memory pointer is nulled, then the trap is forced;
\* the trap handler keeps the slot; the clean-up runs; execute throws
\* InvalidMemoryAccess and not VMTrap.
C5_CapturedInvalidMemoryAccess ==
  /\ Running("caught") =>
       /\ exceptionIdx = "InvalidMemoryAccess" /\ exceptionString \in WhatStrings
       /\ Top.trapSlot = "NA"
  /\ Running("force_trap") =>
       /\ exceptionIdx = "InvalidMemoryAccess" /\ exceptionString \in WhatStrings
       /\ (TopDangles \/ TopMem = "null")
       /\ Top.trapSlot = "NA"
  /\ (Level > 0 /\ Top.path = "captured" /\ Top.pc \in {"trapped", "teardown", "returned"}) =>
       /\ exceptionIdx = "InvalidMemoryAccess" /\ exceptionString \in WhatStrings
       /\ (Top.pc # "trapped" => Top.trapSlot = "InvalidMemoryAccess")
       /\ (Top.pc = "returned" => Top.tornDown)
  /\ (Ended /\ last.path = "captured") =>
       /\ last.outcome = "throw"
       /\ last.error = "InvalidMemoryAccess"
       /\ last.trapSlot = "InvalidMemoryAccess"
       /\ last.tornDown /\ last.pops = 1

C5_Witness ==
  /\ last.path = "captured"
  /\ last.error = "InvalidMemoryAccess"
  /\ last.tornDown

\* C6: when main ends in an engine trap, execute throws the kind the slot
\* holds after the trap handler ran: VMTrap when the slot was empty at the
\* trap, the saved kind otherwise.
C6_TrapClassification ==
  /\ (Level > 0 /\ Top.trapSlot # "NA") =>
       /\ exceptionIdx = Top.trapSlot
       /\ Top.trapSlot = (IF Top.captured = "None" THEN "VMTrap" ELSE Top.captured)
  /\ (Ended /\ last.trapSlot # "NA") =>
       /\ last.outcome = "throw"
       /\ last.error = last.trapSlot
       /\ last.error = (IF last.captured = "None" THEN "VMTrap" ELSE last.captured)

C6_Witness ==
  /\ last.path = "trap"
  /\ last.trapSlot = "VMTrap"
  /\ last.outcome = "throw"
  /\ last.error = "VMTrap"

\* C7: when finish or revert ends main with EndExecution, execute returns its
\* result: nothing is thrown, the slot stays empty, and the clean-up (null
\* the top's memory pointer, pop) has run.
C7_EndExecutionIsSuccess ==
  /\ (Level > 0 /\ Top.path = "end_execution") =>
       /\ exceptionIdx = "None" /\ exceptionString = ""
       /\ Top.pc \in {"teardown", "returned"}
       /\ (Top.pc = "returned" => (Top.tornDown /\ Top.pops = 1))
  /\ (Ended /\ last.path = "end_execution") =>
       /\ last.outcome = "return"
       /\ last.error = "None"
       /\ last.slotIdx = "None" /\ last.slotStr = ""
       /\ last.tornDown /\ last.pops = 1
       /\ (last.ownOnStack \/ last.ownMem = "null")

C7_Witness ==
  /\ last.path = "end_execution"
  /\ last.outcome = "return"
  /\ last.tornDown
  /\ ~last.ownOnStack
  /\ last.ownMem = "null"

\* C8: bytes the parser rejects: execute throws ContractValidationFailure, no
\* compartment was created or is left, and the stack and the slot are as the
\* call found them.
C8_ParseFailureLeavesNothing ==
  (Ended /\ last.path \in ParseFailures) =>
    /\ last.outcome = "throw"
    /\ last.error = "ContractValidationFailure"
    /\ ~last.compCreated
    /\ last.slotIdx = "None" /\ last.slotStr = ""
    /\ last.exitDepth = last.entryDepth
    /\ ~last.ownOnStack

\* C9: a module that parses and links but lacks "memory" or lacks "main" is
\* never invoked.
C9_MissingExportNeverInvoked ==
  \A i \in 1..Level :
    (~frames[i].mod.hasMemory \/ ~frames[i].mod.hasMain) => ~frames[i].mainInvoked

\* C10: a link failure makes execute throw ContractValidationFailure.
C10_LinkFailureIsValidationFailure ==
  (Ended /\ last.path = "link") =>
    (last.outcome = "throw" /\ last.error = "ContractValidationFailure")

\* C11: an error carried by the slot is thrown by execute only after the
\* clean-up of internalExecute has run, and never while the invocation's own
\* interface is still on the stack or its memory pointer is still bound.
C11_SlotErrorAfterTeardown ==
  (Ended /\ last.outcome = "throw" /\ last.trapSlot # "NA") =>
    /\ last.tornDown
    /\ last.slotIdx = "None"
    /\ ~last.ownOnStack
    /\ last.ownMem # "bound"

\* Positions of an activation in which main is running or one of its host
\* functions is executing.
HostPcs == {"invoke", "in_call", "call_return", "caught", "force_trap"}

\* C12: with nested invocations, interface.top() is the interface of the
\* innermost invocation in progress whenever a host function of it can run,
\* also after a nested execute has ended by success or by failure.
C12_TopIsInnermost ==
  (Level > 0 /\ Top.pc \in HostPcs \ {"in_call"}) => TopEntry = Level

\* C13: the stack is not empty while main or a host function is executing:
\* the activation's one push came before and none of its pops has happened.
C13_StackNonEmptyInHostCall ==
  \A i \in 1..Level :
    /\ frames[i].mainInvoked => frames[i].pushes = 1
    /\ frames[i].pc \in HostPcs =>
         /\ Len(interface) > 0
         /\ frames[i].mainInvoked
         /\ frames[i].pops = 0
         /\ \E j \in 1..Len(interface) : interface[j] = i
    /\ frames[i].pops > 0 => frames[i].pc = "returned"

C13_Witness ==
  /\ Level = 2
  /\ Top.pc = "force_trap"
  /\ frames[1].pc = "in_call"
  /\ Len(interface) >= 2

\* C14: within one invocation the slot is written to a non-empty value at
\* most once between the clearing at the start of execute and its
\* consumption: no capture follows a capture, after a capture the contract
\* makes no further host call, and the trap handler writes VMTrap only into
\* an empty slot.
C14_SlotWrittenAtMostOnce ==
  /\ \A i \in 1..Level :
       /\ frames[i].slotWrites <= 1
       /\ frames[i].trapSlot = "VMTrap" => frames[i].captured = "None"
       /\ frames[i].captured # "None" =>
            frames[i].pc \in {"caught", "force_trap", "trapped", "teardown", "returned"}
  /\ exceptionIdx # "None" => (Level > 0 /\ Top.slotWrites = 1)
  /\ Ended => last.slotWrites <= 1

C14_Witness ==
  /\ last.captured = "InvalidMemoryAccess"
  /\ last.trapSlot = "InvalidMemoryAccess"
  /\ last.slotWrites = 1

\* C15: memorySize, memoryGet and memorySet are never run on a memory pointer
\* that is null, was cleared or was never bound: every memory access of a
\* host function goes through a bound pointer.
C15_NoAccessThroughNullHandle ==
  \A i \in 1..Level : frames[i].memAccess \in {"none", "bound"}

\* C17: resolve succeeds only for an import whose module is registered, whose
\* export exists and whose exported object has the requested type: a module
\* that linked has only such imports.
C17_ResolveChecksType ==
  \A i \in 1..Level :
    (\E k \in 1..Len(frames[i].stages) : frames[i].stages[k] = "linked") =>
      \A imp \in frames[i].mod.imports :
        /\ imp.module \in moduleNameToInstanceMap
        /\ getInstanceExport(imp.name) # "null"
        /\ getInstanceExport(imp.name) = imp.type

\* C18: every execute collects garbage once before and once after
\* internalExecute, and its compartment is released and collected before it
\* hands control back, on failure as on success.
C18_CollectedOnEveryPath ==
  Ended => (last.gcRuns = 2 /\ last.garbage = 0)

\* The stages of one invocation, in the order of internalExecute.
LifecycleOrder ==
  <<"pushed", "parsed", "compartment", "host", "linked", "instantiated", "memory",
    "main", "invoked", "cleared", "popped", "released">>

IsPrefix(s, t) == Len(s) <= Len(t) /\ SubSeq(t, 1, Len(s)) = s

\* C19: the stages of an invocation occur in the fixed order; main is invoked
\* only after all earlier stages, and the compartment is released only after
\* the memory pointer was cleared and the interface popped.
C19_LifecycleOrder ==
  /\ \A i \in 1..Level : IsPrefix(frames[i].stages, LifecycleOrder)
  /\ Ended => IsPrefix(last.stages, LifecycleOrder)

\* C20: the slot is empty whenever an execute begins, top-level or nested; an
\* outer invocation waiting in its call host function has nothing saved in
\* the slot, and what a nested invocation saved is consumed by the nested
\* execute before the outer invocation goes on.
C20_SlotEmptyAtEveryEntry ==
  /\ Running("execute") => (exceptionIdx = "None" /\ exceptionString = "")
  /\ \A i \in 1..Level :
       i < Level =>
         /\ frames[i].pc = "in_call"
         /\ frames[i].captured = "None"
         /\ frames[i].trapSlot = "NA"
         /\ frames[i].slotWrites = 0
  /\ Running("call_return") =>
       /\ exceptionIdx = "None" /\ exceptionString = ""
       /\ Top.captured = "None" /\ Top.trapSlot = "NA"

C20_Witness ==
  /\ Running("call_return")
  /\ last.lvl = 2
  /\ last.captured = "InvalidMemoryAccess"
  /\ last.error = "InvalidMemoryAccess"
  /\ exceptionIdx = "None"

====
